---- MODULE Spec2Model ----
(***************************************************************************)
(* AOUBot backend: the Flask endpoints of backend/app.py over the SQLite   *)
(* store of backend/database.py.  Requests are served by concurrent        *)
(* workers; every SQL write runs in the implicit transaction that Python's *)
(* sqlite3 module opens before the first INSERT/UPDATE/DELETE of a         *)
(* connection and that conn.commit() ends.                                 *)
(***************************************************************************)
EXTENDS Integers, Sequences, FiniteSets, TLC

VARIABLES db, txn, pc, loc, conn, orphans, uuid_n, out

vars == <<db, txn, pc, loc, conn, orphans, uuid_n, out>>

(* ------------------------------ bounds --------------------------------- *)

\* cap on chats.id (AUTOINCREMENT never reuses an id, so it only grows)
MaxChatId == 4
\* cap on the number of session ids uuid4() hands out
MaxUuid == 1

Workers == {"w1", "w2"}

(* ------------------------------ strings -------------------------------- *)
\* A Python str is a sequence of characters; " " is whitespace.

WS == {" "}

RECURSIVE LStrip(_)
LStrip(s) == IF s # <<>> /\ Head(s) \in WS THEN LStrip(Tail(s)) ELSE s

RECURSIVE RStrip(_)
RStrip(s) ==
  IF s # <<>> /\ s[Len(s)] \in WS THEN RStrip(SubSeq(s, 1, Len(s) - 1)) ELSE s

\* str.strip()
Strip(s) == RStrip(LStrip(s))

\* A JSON value of a request body: null (also: key absent) or a string.
Null == [k |-> "null"]
Str(s) == [k |-> "str", v |-> s]

\* (data.get(key) or "").strip()
Field(j) == Strip(IF j.k = "str" THEN j.v ELSE <<>>)

\* hashlib.sha256(password.encode("utf-8")).hexdigest(): a digest, kept apart
\* from the text it was computed from; distinct texts give distinct digests.
hash_password(password) == [sha256 |-> password]

\* Python's None for an integer result; AUTOINCREMENT ids start at 1, so
\* `not user_id` is exactly user_id = None here.
None == 0

(* ------------------------------ the store ------------------------------ *)
\* users and chat_sessions are kept in rowid order, chats as rows with ids.

EmptyDb == [users |-> <<>>, chats |-> {}, chat_sessions |-> <<>>, chat_seq |-> 0]

NoTxn == [owner |-> "none", db |-> EmptyDb]

Range(f) == {f[i] : i \in DOMAIN f}

\* SELECT id FROM users WHERE email = ?   (fetchone, row[0] if row else None)
LookupUserId(d, email) ==
  LET hits == {i \in DOMAIN d.users : d.users[i].email = email}
  IN IF hits = {} THEN None ELSE CHOOSE i \in hits : \A j \in hits : i <= j

get_user_id(d, email) == IF email = <<>> THEN None ELSE LookupUserId(d, email)

\* username TEXT UNIQUE, email TEXT UNIQUE
UsersUniqueViolation(d, username, email) ==
  \E i \in DOMAIN d.users :
     d.users[i].username = username \/ d.users[i].email = email

\* the row is appended; users.id is its position
InsertUserNoCheck(d, username, email, password) ==
  [d EXCEPT !.users = Append(@, [username |-> username, email |-> email,
                                 password |-> password])]

\* variant: the same INSERT into a table without the UNIQUE constraints
InsertUserUnchecked(d, username, email, password) ==
  [err |-> "ok", db |-> InsertUserNoCheck(d, username, email, password)]

\* INSERT INTO users (username, email, password) VALUES (?, ?, ?)
\* the result is the new table, or "IntegrityError"
InsertUser(d, username, email, password) ==
  IF UsersUniqueViolation(d, username, email)
  THEN [err |-> "IntegrityError", db |-> d]
  ELSE [err |-> "ok", db |-> InsertUserNoCheck(d, username, email, password)]

\* variant: the SELECT without "AND password = ?"
LoginMatchEmailOnly(d, email, hashed) ==
  \E i \in DOMAIN d.users : d.users[i].email = email

\* SELECT id FROM users WHERE email = ? AND password = ?   (fetchone)
LoginMatch(d, email, hashed) ==
  \E i \in DOMAIN d.users :
     d.users[i].email = email /\ d.users[i].password = hashed

\* title or None: the empty string is stored as SQL NULL
TitleOrNone(title) == IF title = <<>> THEN Null ELSE Str(title)

\* chats.id INTEGER PRIMARY KEY AUTOINCREMENT
NextChatId(d) == d.chat_seq + 1

\* INSERT INTO chats (user_id, session_id, role, message) VALUES (?, ?, ?, ?)
InsertChat(d, user_id, session_id, role, message) ==
  [d EXCEPT !.chats = @ \cup {[id |-> NextChatId(d), user_id |-> user_id,
                               session_id |-> session_id, role |-> role,
                               message |-> message]},
            !.chat_seq = NextChatId(d)]

SessionExists(d, user_id, session_id) ==
  \E i \in DOMAIN d.chat_sessions :
     /\ d.chat_sessions[i].user_id = user_id
     /\ d.chat_sessions[i].session_id = session_id

\* the row is appended whatever the table holds
InsertSessionAlways(d, user_id, session_id, title) ==
  [d EXCEPT !.chat_sessions = Append(@, [user_id |-> user_id,
                                         session_id |-> session_id,
                                         title |-> title])]

\* INSERT OR IGNORE INTO chat_sessions ...  with UNIQUE (user_id, session_id)
InsertSessionOrIgnore(d, user_id, session_id, title) ==
  IF SessionExists(d, user_id, session_id)
  THEN d
  ELSE InsertSessionAlways(d, user_id, session_id, title)

\* variant: the UPDATE left out
UpdateSessionTitleNoop(d, user_id, session_id, title) == d

\* UPDATE chat_sessions SET title = ? WHERE user_id = ? AND session_id = ?
UpdateSessionTitle(d, user_id, session_id, title) ==
  [d EXCEPT !.chat_sessions =
     [i \in DOMAIN @ |->
        IF @[i].user_id = user_id /\ @[i].session_id = session_id
        THEN [@[i] EXCEPT !.title = title]
        ELSE @[i]]]

ChatsOf(d, user_id, session_id) ==
  {r \in d.chats : r.user_id = user_id /\ r.session_id = session_id}

\* variant: the DELETE without "user_id = ?"
DeleteChatsAnyUser(d, user_id, session_id) ==
  [d EXCEPT !.chats = {r \in @ : r.session_id # session_id}]

\* DELETE FROM chats WHERE user_id = ? AND session_id = ?
DeleteChats(d, user_id, session_id) ==
  [d EXCEPT !.chats = @ \ ChatsOf(d, user_id, session_id)]

\* cursor.rowcount of that DELETE
DeletedRowcount(d, user_id, session_id) ==
  Cardinality(ChatsOf(d, user_id, session_id))

\* DELETE FROM chat_sessions WHERE user_id = ? AND session_id = ?
DeleteSessionRow(d, user_id, session_id) ==
  [d EXCEPT !.chat_sessions =
     SelectSeq(@, LAMBDA r : ~(r.user_id = user_id /\ r.session_id = session_id))]

\* variant: ORDER BY id DESC
RECURSIVE OrderByIdDesc(_)
OrderByIdDesc(rows) ==
  IF rows = {} THEN <<>>
  ELSE LET first == CHOOSE r \in rows : \A q \in rows : r.id >= q.id
       IN <<first>> \o OrderByIdDesc(rows \ {first})

\* ORDER BY id
RECURSIVE OrderById(_)
OrderById(rows) ==
  IF rows = {} THEN <<>>
  ELSE LET first == CHOOSE r \in rows : \A q \in rows : r.id <= q.id
       IN <<first>> \o OrderById(rows \ {first})

\* SELECT role, message FROM chats WHERE user_id = ? AND session_id = ? ORDER BY id
SelectHistory(rows) ==
  LET s == OrderById(rows)
  IN [i \in DOMAIN s |-> [role |-> s[i].role, text |-> s[i].message]]

get_chat_history(d, user_id, session_id) ==
  IF user_id = None \/ session_id = <<>> THEN <<>>
  ELSE SelectHistory(ChatsOf(d, user_id, session_id))

(* ------------------------------ requests ------------------------------- *)

\* request fields as the client sends them
JUsernames == {Str(<<>>), Str(<<"a">>), Str(<<"b">>)}
JEmails    == {Str(<<" ">>), Str(<<"a">>), Str(<<" ", "a">>), Str(<<"b">>)}
JPasswords == {Null, Str(<<"a">>), Str(<<"a", " ">>), Str(<<"b">>)}

RegisterBodies ==
  [username : JUsernames, email : JEmails, password : JPasswords]

LoginBodies == [email : JEmails, password : JPasswords]

\* the accounts the session endpoints are exercised with
SessionRegisterBodies ==
  { [username |-> Str(<<"a">>), email |-> Str(<<"a">>), password |-> Str(<<"a">>)],
    [username |-> Str(<<"b">>), email |-> Str(<<" ", "b">>), password |-> Str(<<"a">>)] }

ChatRegisterBodies ==
  { [username |-> Str(<<"a">>), email |-> Str(<<"a">>), password |-> Str(<<"a">>)] }

Idle == [op |-> "idle"]
NoOut == [op |-> "none"]

Init ==
  /\ db = EmptyDb
  /\ txn = NoTxn
  /\ pc = [p \in Workers |-> "idle"]
  /\ loc = [p \in Workers |-> Idle]
  /\ conn = [p \in Workers |-> 0]
  /\ orphans = 0
  /\ uuid_n = 0
  /\ out = NoOut

\* the database another connection reads: committed rows only
Committed == db

\* conn = sqlite3.connect(...)
Connect(p) == conn' = [conn EXCEPT ![p] = @ + 1]

\* conn.close()
Close(p) == conn' = [conn EXCEPT ![p] = @ - 1]

\* variant: a connection in autocommit mode, every statement committed at once
ExecuteAutocommit(owner, d) ==
  /\ txn.owner = "none"
  /\ txn' = [owner |-> owner, db |-> d]
  /\ db' = d

\* cursor.execute of the first INSERT/DELETE of a connection: sqlite3 opens a
\* transaction, the statement takes the write lock and its effect stays in
\* the connection's transaction
Execute(owner, d) ==
  /\ txn.owner = "none"
  /\ txn' = [owner |-> owner, db |-> d]
  /\ db' = db

\* conn.commit(), after the connection's last statement left the tables as d
Commit(d) ==
  /\ db' = d
  /\ txn' = NoTxn

\* the handler returns: its locals are gone
Return(p) == pc' = [pc EXCEPT ![p] = "idle"] /\ loc' = [loc EXCEPT ![p] = Idle]

\* A handler's lookups and parsing are taken together with its first SQL
\* write: user rows are never changed, so a lookup made earlier gives the same
\* result, and the write needs the database's write lock (txn.owner = "none").

(* ------------------------------ /register ------------------------------ *)

\* register(), lines 133-149 and 153-154: parse, validate, hash, connect and
\* INSERT; a uniqueness violation raises IntegrityError, which the handler
\* answers without closing the connection: the connection and its open
\* transaction stay behind.
RegisterRequest(p, bodies) ==
  /\ pc[p] = "idle"
  /\ \E data \in bodies :
       LET username == Field(data.username)
           email    == Field(data.email)
           password == Field(data.password)
           r == InsertUser(db, username, email, hash_password(password))
       IN IF username = <<>> \/ email = <<>> \/ password = <<>>
          THEN /\ out' = [op |-> "register", status |-> 200, data |-> data,
                          body |-> [success |-> FALSE,
                                    message |-> "All fields are required."]]
               /\ UNCHANGED <<db, pc, loc, txn, conn, orphans>>
          ELSE /\ IF r.err = "IntegrityError"
                  THEN /\ Execute("orphan", r.db)
                       /\ orphans' = orphans + 1
                       /\ out' = [op |-> "register", status |-> 200, data |-> data,
                                  body |-> [success |-> FALSE,
                                            message |-> "Username or email already exists."]]
                       /\ UNCHANGED <<pc, loc, conn>>
                  ELSE /\ Execute(p, r.db)
                       /\ Connect(p)
                       /\ pc' = [pc EXCEPT ![p] = "reg_commit"]
                       /\ loc' = [loc EXCEPT ![p] = [op |-> "register", data |-> data]]
                       /\ out' = NoOut
                       /\ UNCHANGED orphans
  /\ UNCHANGED uuid_n

\* register(), lines 150-152: commit, close, answer
RegisterCommit(p) ==
  /\ pc[p] = "reg_commit"
  /\ txn.owner = p
  /\ Commit(txn.db)
  /\ Close(p)
  /\ out' = [op |-> "register", status |-> 200, data |-> loc[p].data,
             body |-> [success |-> TRUE, message |-> "Registration successful."]]
  /\ Return(p)
  /\ UNCHANGED <<orphans, uuid_n>>

\* A connection nobody closed is closed when the runtime reclaims it; its
\* uncommitted transaction is rolled back.
Finalize ==
  /\ orphans > 0
  /\ orphans' = orphans - 1
  /\ txn' = IF txn.owner = "orphan" THEN NoTxn ELSE txn
  /\ out' = NoOut
  /\ UNCHANGED <<db, pc, loc, conn, uuid_n>>

(* ------------------------------- /login -------------------------------- *)

\* login(), lines 161-186
Login(p, bodies) ==
  /\ pc[p] = "idle"
  /\ \E data \in bodies :
       LET email    == Field(data.email)
           password == Field(data.password)
       IN out' =
            [op |-> "login", status |-> 200, data |-> data,
             body |->
               IF email = <<>> \/ password = <<>>
               THEN [success |-> FALSE,
                     message |-> "Please enter both email and password."]
               ELSE IF LoginMatch(Committed, email, hash_password(password))
               THEN [success |-> TRUE, message |-> "Login successful."]
               ELSE [success |-> FALSE, message |-> "UserName/Password incorrect."]]
  /\ UNCHANGED <<db, txn, pc, loc, conn, orphans, uuid_n>>

\* The server process dies: every request in flight is lost and SQLite rolls
\* the uncommitted transaction back; committed rows stay.
Crash ==
  /\ \E p \in Workers : pc[p] # "idle"
  /\ txn' = NoTxn
  /\ pc' = [p \in Workers |-> "idle"]
  /\ loc' = [p \in Workers |-> Idle]
  /\ conn' = [p \in Workers |-> 0]
  /\ orphans' = 0
  /\ out' = NoOut
  /\ UNCHANGED <<db, uuid_n>>

(* -------------------------------- /chat -------------------------------- *)

\* str(uuid4()): the n-th identifier handed out; no two are equal and none
\* equals an identifier a client made up
Digits == <<"1", "2", "3", "4", "5", "6", "7", "8", "9">>
Uuid(n) == <<"#", Digits[n]>>

JMessages == {Null, Str(<<"q", " ">>)}
JChatEmails == {Null, Str(<<"a">>), Str(<<"b">>)}
\* a client sends no session id, one of its own, or one the server handed out
JSessionIds == {Null, Str(<<"s">>)} \cup {Str(Uuid(n)) : n \in 1..uuid_n}

\* "history": absent (the default [] applies), null, or a list of entries
Histories ==
  { [k |-> "absent"], Null,
    [k |-> "list", v |-> <<[role |-> <<"user">>, text |-> <<"h">>]>>],
    [k |-> "list", v |-> <<[role |-> <<"bot">>, text |-> <<"h">>]>>],
    [k |-> "list", v |-> <<[text |-> <<"h">>]>>] }

ChatBodies ==
  [message : JMessages, history : Histories, email : JChatEmails]

\* the well-formed chat requests of signed-in clients that name their session
SessionChatBodies ==
  [message : {Str(<<"q", " ">>)}, history : {[k |-> "absent"]},
   email : {Str(<<"a">>), Str(<<"b">>)}]

\* the completion provider: text, or a failure
LlmOutcomes ==
  { [ok |-> TRUE, content |-> <<"r", " ">>],
    [ok |-> TRUE, content |-> <<" ">>],
    [ok |-> FALSE, error |-> "provider failure"] }

\* the provider's outcomes in the runs about the session store
SessionLlmOutcomes == {r \in LlmOutcomes : r.ok => Strip(r.content) # <<>>}

\* lines 91-95: msg["role"], msg["text"] of every history entry
RECURSIVE HistoryMessages(_)
HistoryMessages(h) ==
  IF h = <<>> THEN [raised |-> "no", messages |-> <<>>]
  ELSE LET msg == Head(h)
           rest == HistoryMessages(Tail(h))
       IN IF "role" \notin DOMAIN msg \/ "text" \notin DOMAIN msg
          THEN [raised |-> "KeyError", messages |-> <<>>]
          ELSE IF rest.raised # "no" THEN rest
          ELSE [raised |-> "no",
                messages |->
                  <<[role |-> IF msg.role = <<"user">> THEN "user" ELSE "assistant",
                     content |-> msg.text]>> \o rest.messages]

\* lines 64 and 76-98: the message list sent to the provider, or the
\* exception the loop over history raises (None is not iterable)
BuildMessages(history, question) ==
  IF history.k = "null" THEN [raised |-> "TypeError", messages |-> <<>>]
  ELSE LET translated == HistoryMessages(IF history.k = "absent" THEN <<>>
                                         ELSE history.v)
       IN IF translated.raised # "no" THEN translated
          ELSE [raised |-> "no",
                messages |->
                  <<[role |-> "system", content |-> <<"knowledge">>]>>
                  \o translated.messages
                  \o <<[role |-> "user", content |-> question]>>]

\* ids still to be handed out to requests already accepted
TopChatId == IF txn.owner = "none" THEN db.chat_seq ELSE txn.db.chat_seq
InFlightChats == Cardinality({w \in Workers : loc[w].op = "chat"})

\* chat(), lines 62-98
ChatRequest(p, bodies, sids) ==
  /\ pc[p] = "idle"
  /\ \E data \in bodies, jsid \in sids :
       LET question   == Field(data.message)
           user_email == Field(data.email)
           given      == Field(jsid)
           session_id == IF given = <<>> THEN Uuid(uuid_n + 1) ELSE given
       IN IF question = <<>>
          THEN /\ out' = [op |-> "chat", status |-> 200,
                          body |-> [answer |-> <<"Please enter your question.">>]]
               /\ UNCHANGED <<pc, loc, uuid_n>>
          ELSE /\ given = <<>> => uuid_n < MaxUuid
               /\ uuid_n' = IF given = <<>> THEN uuid_n + 1 ELSE uuid_n
               /\ IF BuildMessages(data.history, question).raised # "no"
                  THEN /\ out' = [op |-> "chat", status |-> 500,
                                  body |-> BuildMessages(data.history, question).raised]
                       /\ UNCHANGED <<pc, loc>>
                  ELSE /\ TopChatId + 2 * InFlightChats + 2 <= MaxChatId
                       /\ pc' = [pc EXCEPT ![p] = "llm"]
                       /\ loc' = [loc EXCEPT ![p] =
                                    [op |-> "chat", question |-> question,
                                     user_email |-> user_email,
                                     session_id |-> session_id,
                                     user_id |-> None, answer |-> <<>>,
                                     persisted |-> <<>>]]
                       /\ out' = NoOut
  /\ UNCHANGED <<db, txn, conn, orphans>>

\* lines 118-121
ChatAnswer(l) ==
  [op |-> "chat", status |-> 200,
   body |-> [answer |-> l.answer, session_id |-> l.session_id]]

\* save_message, line 73: the call returns at once
SaveGuard(user_id, session_id, message) ==
  user_id = None \/ session_id = <<>> \/ message = <<>>

\* save_message, lines 75-82: connect and INSERT INTO chats, which opens the
\* transaction
SaveMessageInsert(p, user_id, session_id, role, message) ==
  /\ Connect(p)
  /\ Execute(p, InsertChat(db, user_id, session_id, role, message))

\* chat(), lines 100-114 and 123-127: the provider answers or fails; on an
\* answer the user is looked up (get_user_id, lines 58-67) and the question
\* saved
LlmReturn(p, outcomes) ==
  /\ pc[p] = "llm"
  /\ \E r \in outcomes :
       IF ~r.ok
       THEN /\ out' = [op |-> "chat", status |-> 200,
                       body |-> [answer |-> <<"Error during processing: ", r.error>>,
                                 session_id |-> loc[p].session_id]]
            /\ Return(p)
            /\ UNCHANGED <<db, txn, conn>>
       ELSE LET user_id == IF loc[p].user_email # <<>>
                           THEN get_user_id(Committed, loc[p].user_email)
                           ELSE None
                l == [loc[p] EXCEPT !.answer = Strip(r.content), !.user_id = user_id]
            IN IF user_id = None
               THEN /\ out' = ChatAnswer(l)
                    /\ Return(p)
                    /\ UNCHANGED <<db, txn, conn>>
               ELSE /\ loc' = [loc EXCEPT ![p] = l]
                    /\ out' = NoOut
                    /\ IF SaveGuard(user_id, l.session_id, l.question)
                       THEN /\ pc' = [pc EXCEPT ![p] = "save_assistant"]
                            /\ UNCHANGED <<db, txn, conn>>
                       ELSE /\ SaveMessageInsert(p, user_id, l.session_id, "user",
                                                 l.question)
                            /\ pc' = [pc EXCEPT ![p] = "insert_user"]
  /\ UNCHANGED <<orphans, uuid_n>>

\* chat(), line 115: save_message(user_id, session_id, "assistant", answer)
SaveAnswer(p) ==
  /\ pc[p] = "save_assistant"
  /\ IF SaveGuard(loc[p].user_id, loc[p].session_id, loc[p].answer)
     THEN /\ out' = ChatAnswer(loc[p])
          /\ Return(p)
          /\ UNCHANGED <<db, txn, conn>>
     ELSE /\ SaveMessageInsert(p, loc[p].user_id, loc[p].session_id, "assistant",
                               loc[p].answer)
          /\ pc' = [pc EXCEPT ![p] = "insert_assistant"]
          /\ out' = NoOut
          /\ UNCHANGED loc
  /\ UNCHANGED <<orphans, uuid_n>>

\* save_message, lines 85-91: INSERT OR IGNORE INTO chat_sessions, commit,
\* close; then chat() goes on to line 115 or to its answer
SaveMessageCommit(p) ==
  /\ pc[p] \in {"insert_user", "insert_assistant"}
  /\ txn.owner = p
  /\ Commit(InsertSessionOrIgnore(txn.db, loc[p].user_id, loc[p].session_id, Null))
  /\ Close(p)
  /\ LET l == [loc[p] EXCEPT !.persisted = @ \o OrderById(db'.chats \ db.chats)]
     IN IF pc[p] = "insert_user"
        THEN /\ pc' = [pc EXCEPT ![p] = "save_assistant"]
             /\ loc' = [loc EXCEPT ![p] = l]
             /\ out' = NoOut
        ELSE /\ out' = ChatAnswer(l)
             /\ Return(p)
  /\ UNCHANGED <<orphans, uuid_n>>

(* --------------------------- /session/title ---------------------------- *)

JTitles == {Null, Str(<<"t", " ">>)}
JSessionEmails == {Str(<<"a">>), Str(<<"b">>)}

\* rename_session(), lines 192-201, and upsert_session_title, lines 150-159:
\* the guards, connect, INSERT OR IGNORE
RenameRequest(p) ==
  /\ pc[p] = "idle"
  /\ \E jemail \in JSessionEmails, jsid \in JSessionIds, jtitle \in JTitles :
       LET session_id == Field(jsid)
           title == Field(jtitle)
           user_id == get_user_id(Committed, Field(jemail))
       IN IF user_id = None \/ session_id = <<>>
          THEN /\ out' = [op |-> "rename", status |-> 200,
                          body |-> [success |-> FALSE,
                                    message |-> "Missing email or session ID."]]
               /\ UNCHANGED <<db, pc, loc, txn, conn>>
          ELSE /\ Connect(p)
               /\ Execute(p, InsertSessionOrIgnore(db, user_id, session_id,
                                                   TitleOrNone(title)))
               /\ pc' = [pc EXCEPT ![p] = "upsert_update"]
               /\ loc' = [loc EXCEPT ![p] =
                            [op |-> "rename", user_id |-> user_id,
                             session_id |-> session_id, title |-> title]]
               /\ out' = NoOut
  /\ UNCHANGED <<orphans, uuid_n>>

\* upsert_session_title, lines 162-169, and rename_session(), line 202:
\* UPDATE, commit, close, return True
UpsertCommit(p) ==
  /\ pc[p] = "upsert_update"
  /\ txn.owner = p
  /\ Commit(UpdateSessionTitle(txn.db, loc[p].user_id, loc[p].session_id,
                               TitleOrNone(loc[p].title)))
  /\ Close(p)
  /\ out' = [op |-> "rename", status |-> 200, body |-> [success |-> TRUE]]
  /\ Return(p)
  /\ UNCHANGED <<orphans, uuid_n>>

(* ------------------------------ /session ------------------------------- *)

\* remove_session(), lines 208-216, and delete_session, lines 175-185: the
\* guards, connect, DELETE FROM chats, rowcount
RemoveRequest(p) ==
  /\ pc[p] = "idle"
  /\ \E jemail \in JSessionEmails, jsid \in JSessionIds :
       LET session_id == Field(jsid)
           user_id == get_user_id(Committed, Field(jemail))
       IN IF user_id = None \/ session_id = <<>>
          THEN /\ out' = [op |-> "remove", status |-> 200,
                          body |-> [success |-> FALSE,
                                    message |-> "Missing email or session ID."]]
               /\ UNCHANGED <<db, pc, loc, txn, conn>>
          ELSE /\ Connect(p)
               /\ Execute(p, DeleteChats(db, user_id, session_id))
               /\ pc' = [pc EXCEPT ![p] = "delete_session"]
               /\ loc' = [loc EXCEPT ![p] =
                            [op |-> "remove", user_id |-> user_id,
                             session_id |-> session_id,
                             deleted_msgs |-> DeletedRowcount(db, user_id, session_id)]]
               /\ out' = NoOut
  /\ UNCHANGED <<orphans, uuid_n>>

\* delete_session, lines 188-195, and remove_session(), line 217:
\* DELETE FROM chat_sessions, commit, close, return deleted_msgs
DeleteCommit(p) ==
  /\ pc[p] = "delete_session"
  /\ txn.owner = p
  /\ Commit(DeleteSessionRow(txn.db, loc[p].user_id, loc[p].session_id))
  /\ Close(p)
  /\ out' = [op |-> "remove", status |-> 200,
             body |-> [success |-> TRUE, deleted_messages |-> loc[p].deleted_msgs]]
  /\ Return(p)
  /\ UNCHANGED <<orphans, uuid_n>>

RegisterStep == \E p \in Workers : RegisterRequest(p, RegisterBodies)
RegisterCommitStep == \E p \in Workers : RegisterCommit(p)
LoginStep == \E p \in Workers : Login(p, LoginBodies)

AuthNext ==
  \/ RegisterStep
  \/ RegisterCommitStep
  \/ LoginStep
  \/ Finalize
  \/ Crash

\* the credential endpoints alone, with every request body
AuthSpec == Init /\ [][AuthNext]_vars

SessionRegisterStep == \E p \in Workers : RegisterRequest(p, SessionRegisterBodies)
SessionChatStep ==
  \E p \in Workers : ChatRequest(p, SessionChatBodies, JSessionIds \ {Null})
SessionLlmStep == \E p \in Workers : LlmReturn(p, SessionLlmOutcomes)
SaveAnswerStep == \E p \in Workers : SaveAnswer(p)
SaveCommitStep == \E p \in Workers : SaveMessageCommit(p)
RenameStep == \E p \in Workers : RenameRequest(p)
UpsertCommitStep == \E p \in Workers : UpsertCommit(p)
RemoveStep == \E p \in Workers : RemoveRequest(p)
DeleteCommitStep == \E p \in Workers : DeleteCommit(p)

Next ==
  \/ SessionRegisterStep
  \/ RegisterCommitStep
  \/ Finalize
  \/ SessionChatStep
  \/ SessionLlmStep
  \/ SaveAnswerStep
  \/ SaveCommitStep
  \/ RenameStep
  \/ UpsertCommitStep
  \/ RemoveStep
  \/ DeleteCommitStep
  \/ Crash

\* the chat and session endpoints, with the accounts of SessionRegisterBodies
Spec == Init /\ [][Next]_vars

ChatRegisterStep == \E p \in Workers : RegisterRequest(p, ChatRegisterBodies)
ChatStep == \E p \in Workers : ChatRequest(p, ChatBodies, JSessionIds)
LlmStep == \E p \in Workers : LlmReturn(p, LlmOutcomes)

ChatNext ==
  \/ ChatRegisterStep
  \/ RegisterCommitStep
  \/ Finalize
  \/ ChatStep
  \/ LlmStep
  \/ SaveAnswerStep
  \/ SaveCommitStep
  \/ Crash

\* POST /chat with every request body, and one account
ChatSpec == Init /\ [][ChatNext]_vars

(* ------------------------------- claims -------------------------------- *)

SessionRows(d, user_id, session_id) ==
  {i \in DOMAIN d.chat_sessions :
     /\ d.chat_sessions[i].user_id = user_id
     /\ d.chat_sessions[i].session_id = session_id}

\* the (user_id, session_id) pairs of d's rows
Pairs(d) ==
  {<<r.user_id, r.session_id>> : r \in d.chats}
  \cup {<<d.chat_sessions[i].user_id, d.chat_sessions[i].session_id>> :
          i \in DOMAIN d.chat_sessions}

\* this step is worker p's save_message committing
SaveCommitted(p) ==
  /\ pc[p] \in {"insert_user", "insert_assistant"}
  /\ txn.owner = p
  /\ txn'.owner = "none"
  /\ pc'[p] # pc[p]
  /\ db' # db

AtMostOneSessionRow ==
  /\ \A pr \in Pairs(db) : Cardinality(SessionRows(db, pr[1], pr[2])) <= 1
  /\ \A pr \in Pairs(txn.db) : Cardinality(SessionRows(txn.db, pr[1], pr[2])) <= 1

SaveLeavesOneSessionRow ==
  \A p \in Workers :
    SaveCommitted(p) =>
      LET u == loc[p].user_id
          s == loc[p].session_id
      IN /\ Cardinality(SessionRows(db', u, s)) = 1
         /\ Cardinality(ChatsOf(db', u, s)) = Cardinality(ChatsOf(db, u, s)) + 1

\* C1: in every reachable state, committed or inside a transaction, there is
\* at most one chat_sessions row per (user_id, session_id); and every
\* save_message that commits leaves exactly one chat_sessions row for its pair
\* and one more chats row than before, so two calls on a brand-new pair leave
\* one session row and two messages.
C1_OneSessionRowPerPair ==
  [](AtMostOneSessionRow) /\ [][SaveLeavesOneSessionRow]_vars

\* C1 witness: a chat request on a pair has answered after both its
\* save_message calls, and the pair has one session row and two messages.
C1_Witness ==
  /\ out.op = "chat"
  /\ out.status = 200
  /\ "session_id" \in DOMAIN out.body
  /\ \E pr \in Pairs(db) :
       /\ pr[2] = out.body.session_id
       /\ Cardinality(SessionRows(db, pr[1], pr[2])) = 1
       /\ get_chat_history(db, pr[1], pr[2]) =
            <<[role |-> "user", text |-> <<"q">>],
              [role |-> "assistant", text |-> out.body.answer]>>

\* this step is worker p's delete_session committing
DeleteCommitted(p) ==
  /\ pc[p] = "delete_session"
  /\ txn.owner = p
  /\ txn'.owner = "none"
  /\ pc'[p] = "idle"
  /\ out'.op = "remove"

HistoryStep(pr) ==
  LET before == get_chat_history(db, pr[1], pr[2])
      after  == get_chat_history(db', pr[1], pr[2])
  IN \/ after = before
     \/ \E p \in Workers :
          /\ SaveCommitted(p)
          /\ pr = <<loc[p].user_id, loc[p].session_id>>
          /\ after = Append(before,
                            [role |-> IF pc[p] = "insert_user" THEN "user"
                                      ELSE "assistant",
                             text |-> IF pc[p] = "insert_user" THEN loc[p].question
                                      ELSE loc[p].answer])
     \/ \E p \in Workers :
          /\ DeleteCommitted(p)
          /\ pr = <<loc[p].user_id, loc[p].session_id>>
          /\ after = <<>>

\* C2: between two successive states the history get_chat_history returns for
\* a pair is unchanged, or is the old history with the message a committing
\* save_message was called with appended at its end, or is emptied by a
\* committing delete_session of that same pair; so it is always the messages
\* saved for the pair since its last deletion, in the order they were saved.
C2_HistoryAppendOnly ==
  [][db'.chats # db.chats =>
       \A pr \in Pairs(db) \cup Pairs(db') : HistoryStep(pr)]_vars

\* C2 witness: two chat requests interleaved on one pair: two questions, then
\* an answer, read back in the order they were saved.
C2_Witness ==
  \E pr \in Pairs(db) :
    LET h == get_chat_history(db, pr[1], pr[2])
    IN /\ Len(h) >= 3
       /\ h[1].role = "user"
       /\ h[2].role = "user"
       /\ h[3].role = "assistant"

\* the chat_sessions rows of every pair but (user_id, session_id), in order
OtherSessionRows(d, user_id, session_id) ==
  SelectSeq(d.chat_sessions,
            LAMBDA r : r.user_id # user_id \/ r.session_id # session_id)

DeleteEffect(p) ==
  LET u == loc[p].user_id
      s == loc[p].session_id
      N == Cardinality(ChatsOf(db, u, s))
  IN /\ out'.body.deleted_messages = N
     /\ out'.body.success
     /\ ChatsOf(db', u, s) = {}
     /\ SessionRows(db', u, s) = {}
     /\ db'.chats = {r \in db.chats : r.user_id # u \/ r.session_id # s}
     /\ db'.chat_sessions = OtherSessionRows(db, u, s)
     /\ db'.users = db.users
     /\ (N = 0 /\ SessionRows(db, u, s) = {}) => db' = db

\* C3: a delete_session that commits on a pair holding N messages returns N
\* and leaves the pair with no message and no session row, every other row
\* being kept; on a pair with no message and no session row (as after a first
\* delete_session) it returns 0 and leaves the store as it was; a session row
\* without messages is deleted with 0 returned.
C3_DeleteSessionCount ==
  [][\A p \in Workers : DeleteCommitted(p) => DeleteEffect(p)]_vars

\* C3 witness: delete_session has just returned 2 for a pair that held two
\* messages, while another pair's rows are still there.
C3_Witness ==
  /\ out.op = "remove"
  /\ out.body.success
  /\ out.body.deleted_messages = 2
  /\ db.chats # {}

\* this step is worker p's upsert_session_title committing
UpsertCommitted(p) ==
  /\ pc[p] = "upsert_update"
  /\ txn.owner = p
  /\ txn'.owner = "none"
  /\ pc'[p] = "idle"
  /\ out'.op = "rename"

TitlesOf(d, user_id, session_id) ==
  {d.chat_sessions[i].title : i \in SessionRows(d, user_id, session_id)}

UpsertEffect(p) ==
  LET u == loc[p].user_id
      s == loc[p].session_id
  IN /\ out'.body.success
     /\ SessionRows(db', u, s) # {}
     /\ TitlesOf(db', u, s) =
          {IF loc[p].title = <<>> THEN Null ELSE Str(loc[p].title)}

TitleFrame(pr) ==
  \/ \E p \in Workers : UpsertCommitted(p) /\ pr = <<loc[p].user_id, loc[p].session_id>>
  \/ SessionRows(db', pr[1], pr[2]) = {}
  \/ IF SessionRows(db, pr[1], pr[2]) = {}
     THEN /\ \E p \in Workers :
               SaveCommitted(p) /\ pr = <<loc[p].user_id, loc[p].session_id>>
          /\ TitlesOf(db', pr[1], pr[2]) = {Null}
     ELSE TitlesOf(db', pr[1], pr[2]) = TitlesOf(db, pr[1], pr[2])

\* C4: an upsert_session_title that commits returns true and leaves a session
\* row for its pair whose title is the title it was called with, null when
\* that title is empty; in every other step a session row that stays keeps its
\* title, and a session row that appears was created by save_message with a
\* null title.
C4_TitleOnlyByUpsert ==
  [][/\ \A p \in Workers : UpsertCommitted(p) => UpsertEffect(p)
     /\ db'.chat_sessions # db.chat_sessions =>
          \A pr \in Pairs(db) \cup Pairs(db') : TitleFrame(pr)]_vars

\* C4 witness: a pair's session row carries the title "t" set by
\* upsert_session_title, and save_message has stored a message for the pair.
C4_Witness ==
  \E pr \in Pairs(db) :
    /\ TitlesOf(db, pr[1], pr[2]) = {Str(<<"t">>)}
    /\ ChatsOf(db, pr[1], pr[2]) # {}

\* C9 as stated: the INSERT INTO chats of save_message is committed on its
\* own, so that once it has run its row is in the committed tables.
C9_MessageCommittedAlone ==
  \A p \in Workers :
    pc[p] \in {"insert_user", "insert_assistant"} => txn.db.chats \subseteq db.chats

\* C9 amended: the two INSERTs of save_message are one transaction, ended by
\* the one conn.commit(): between them the new message is in no committed
\* table, and in every committed state every message's pair has a session row.
C9_SaveMessageOneTransaction ==
  /\ \A r \in db.chats : SessionRows(db, r.user_id, r.session_id) # {}
  /\ \A p \in Workers :
       pc[p] \in {"insert_user", "insert_assistant"} =>
         /\ txn.owner = p
         /\ Cardinality(txn.db.chats \ db.chats) = 1

\* C9 witness: save_message is between its two INSERTs on a pair without a
\* session row: the message is in the transaction, not in the committed tables.
C9_Witness ==
  \E p \in Workers :
    /\ pc[p] = "insert_user"
    /\ SessionRows(txn.db, loc[p].user_id, loc[p].session_id) = {}
    /\ ChatsOf(txn.db, loc[p].user_id, loc[p].session_id) # {}
    /\ ChatsOf(db, loc[p].user_id, loc[p].session_id) = {}

UniqueUsers ==
  \A i, j \in DOMAIN db.users :
    i # j => /\ db.users[i].username # db.users[j].username
             /\ db.users[i].email # db.users[j].email

\* a request field that is absent, null or the empty string
EmptyField(j) == j.k # "str" \/ j.v = <<>>

\* the stripped username or email of the body is that of a stored user
AlreadyStored(data) ==
  \E i \in DOMAIN db.users :
    \/ db.users[i].username = Strip(data.username.v)
    \/ db.users[i].email = Strip(data.email.v)

RegisterEffect ==
  /\ \/ db'.users = db.users
     \/ \E row \in Range(db'.users) : db'.users = Append(db.users, row)
  /\ out'.op = "register" =>
       LET data == out'.data
           empty == EmptyField(data.username) \/ EmptyField(data.email)
                    \/ EmptyField(data.password)
       IN /\ empty => ~out'.body.success /\ db'.users = db.users
          /\ (~empty /\ AlreadyStored(data)) =>
               ~out'.body.success /\ db'.users = db.users
          /\ out'.body.success =>
               /\ db'.users # db.users
               /\ db'.users[Len(db'.users)] =
                    [username |-> Strip(data.username.v),
                     email |-> Strip(data.email.v),
                     password |-> hash_password(Strip(data.password.v))]

\* C5: no two user rows share a username or an email; a step leaves the user
\* rows as they were or appends one; a register call with an empty field, or
\* whose stripped username or email is that of a stored user, answers
\* success=false and leaves the user rows unchanged; a register call that
\* answers success=true has appended its row.
C5_RegisterKeepsUsersUnique ==
  [](UniqueUsers) /\ [][RegisterEffect]_vars

\* C5 witness: a register call has just been refused as a duplicate while
\* two users are stored.
C5_Witness ==
  /\ out.op = "register"
  /\ out.body.message = "Username or email already exists."
  /\ Len(db.users) = 2

LoginSucceedsIff(email, password) ==
  out.body.success <=>
    \E i \in DOMAIN db.users :
      /\ db.users[i].email = email
      /\ db.users[i].password = hash_password(password)

\* C6 as stated: login answers success=true exactly when a stored user has
\* the supplied email and the hash of the supplied password, and for a
\* non-empty email and password every failure carries the same message.
C6_LoginMatchesSupplied ==
  out.op = "login" =>
    LET email == IF out.data.email.k = "str" THEN out.data.email.v ELSE <<>>
        password == IF out.data.password.k = "str" THEN out.data.password.v ELSE <<>>
    IN /\ LoginSucceedsIff(email, password)
       /\ (email # <<>> /\ password # <<>> /\ ~out.body.success) =>
            out.body.message = "UserName/Password incorrect."

LoginAnswer ==
  out.op = "login" =>
    LET email == Strip(IF out.data.email.k = "str" THEN out.data.email.v ELSE <<>>)
        password == Strip(IF out.data.password.k = "str" THEN out.data.password.v
                          ELSE <<>>)
    IN /\ LoginSucceedsIff(email, password)
       /\ (email # <<>> /\ password # <<>> /\ ~out.body.success) =>
            out.body.message = "UserName/Password incorrect."

\* C6 amended: login answers success=true exactly when a stored user has the
\* supplied email stripped of surrounding whitespace and the hash of the
\* supplied password stripped of surrounding whitespace; when both are
\* non-empty after stripping every failure carries the same message; and a
\* login step changes no table and no transaction.
C6_LoginMatchesStripped ==
  [](LoginAnswer) /\ [][out'.op = "login" => UNCHANGED <<db, txn>>]_vars

\* C6 witness: a login with a password padded with whitespace has succeeded.
C6_Witness ==
  /\ out.op = "login"
  /\ out.body.success
  /\ out.data.password.v # Strip(out.data.password.v)

\* C10 as stated: once an operation has returned, no connection it opened is
\* still open.
C10_ConnectionsReleased ==
  /\ orphans = 0
  /\ \A p \in Workers : pc[p] = "idle" => conn[p] = 0

\* the answer of chat()'s except branch (lines 124-127)
LlmFailed(o) ==
  /\ Len(o.body.answer) = 2
  /\ o.body.answer[1] = "Error during processing: "

\* this step is worker p's chat() answering after the provider (line 118 or 124)
ChatAnswered(p) ==
  /\ pc[p] \in {"llm", "save_assistant", "insert_assistant"}
  /\ pc'[p] = "idle"
  /\ out'.op = "chat"

\* the chats rows the request of worker p has committed when it answers
PersistedAtAnswer(p) ==
  IF pc[p] = "insert_assistant"
  THEN loc[p].persisted \o OrderById(db'.chats \ db.chats)
  ELSE loc[p].persisted

ChatPersistsExchange(p) ==
  LET rows == PersistedAtAnswer(p)
      user_id == IF pc[p] = "llm" THEN get_user_id(db, loc[p].user_email)
                 ELSE loc[p].user_id
  IN /\ out'.body.session_id = loc[p].session_id
     /\ IF user_id = None
        THEN rows = <<>> /\ db' = db
        ELSE /\ Len(rows) = 2
             /\ rows[1].id < rows[2].id
             /\ rows[1].role = "user" /\ rows[1].message = loc[p].question
             /\ rows[2].role = "assistant" /\ rows[2].message = out'.body.answer
             /\ \A i \in 1..2 : /\ rows[i].user_id = user_id
                                /\ rows[i].session_id = out'.body.session_id

\* C7 as stated: when chat() answers after the provider returned and the
\* email resolves to a user, the request has stored the question (role user)
\* and then the answer (role assistant) under that user and the session id of
\* the response; when the email is absent or unknown it has stored nothing.
C7_ChatPersistsExchange ==
  [][\A p \in Workers :
       (ChatAnswered(p) /\ ~LlmFailed(out')) => ChatPersistsExchange(p)]_vars

\* C8 as stated: every response of POST /chat has status 200; when the
\* provider fails the answer embeds the failure text, the session id is
\* returned and the request has stored no message.
C8_ChatAlways200 ==
  [][out'.op = "chat" =>
       /\ out'.status = 200
       /\ \A p \in Workers :
            (ChatAnswered(p) /\ LlmFailed(out')) =>
              /\ out'.body.session_id = loc[p].session_id
              /\ loc[p].persisted = <<>>
              /\ db' = db]_vars

====
